---- MODULE Spec2Model ----
(***************************************************************************)
(* A model of optax/_src/base.py: the GradientTransformation pair          *)
(* (init, update) and the three primitive transformations identity,        *)
(* set_to_zero and stateless, driven by a caller that constructs one       *)
(* transformation, initialises its state and calls update repeatedly.      *)
(*                                                                         *)
(* Pytrees are records [kind, val, kids]: a leaf carries a number, a       *)
(* "list" or "dict" node carries its children in order (a dict's keys are  *)
(* its positions: two dicts with the same number of children have the same *)
(* keys).  Python's None is the value NoneVal.                             *)
(***************************************************************************)
EXTENDS Integers, Sequences, FiniteSets, TLC

VARIABLES
  tx,         \* the transformation the caller constructed
  pc,         \* "idle", or "returned" while the caller holds a call's outcome
  call,       \* the call made last: its operation and arguments
  ret,        \* its outcome: the returned pair, or the exception raised
  opt_state,  \* the optimizer state the caller threads from call to call
  memo        \* an earlier call and its outcome, kept for comparison

vars == <<tx, pc, call, ret, opt_state, memo>>

----------------------------------------------------------------------------
(* Bounds of the model *)

\* leaf values of the updates trees are 1..MaxLeaf
MaxLeaf == 3
\* leaf values of the params trees are 1..MaxParamLeaf
MaxParamLeaf == 2
\* leaf values of the trees of the history specification are 1..MaxHistLeaf
MaxHistLeaf == 2

----------------------------------------------------------------------------
(* Values *)

Leaf(v) == [kind |-> "leaf", val |-> v, kids |-> <<>>]
List(s) == [kind |-> "list", val |-> 0, kids |-> s]
Dict(s) == [kind |-> "dict", val |-> 0, kids |-> s]
NoneVal == [kind |-> "none", val |-> 0, kids |-> <<>>]
\* what a call that raised has in place of a result
NoValue == [kind |-> "novalue", val |-> 0, kids |-> <<>>]

EmptyState == [name |-> "EmptyState", fields |-> <<>>]
\* a state of some other transformation, which a caller may pass in
OtherState(n) == [name |-> "ScaleByScheduleState", fields |-> <<n>>]
NoState == [name |-> "nostate", fields |-> <<>>]

NoErr == [origin |-> "none", type |-> "none"]
Raise(origin, type, calls) ==
  [status |-> "raise", err |-> [origin |-> origin, type |-> type],
   new_updates |-> NoValue, new_state |-> NoState, fcalls |-> calls]
Return(new_updates, new_state, calls) ==
  [status |-> "ok", err |-> NoErr,
   new_updates |-> new_updates, new_state |-> new_state, fcalls |-> calls]
NoRet ==
  [status |-> "none", err |-> NoErr,
   new_updates |-> NoValue, new_state |-> NoState, fcalls |-> <<>>]

----------------------------------------------------------------------------
(* jax's pytree primitives, as jax.tree_map uses them *)

RECURSIVE tree_structure(_)
tree_structure(t) ==
  IF t.kind \in {"list", "dict"}
  THEN [t EXCEPT !.kids = [i \in 1..Len(t.kids) |-> tree_structure(t.kids[i])]]
  ELSE [t EXCEPT !.val = 0]

RECURSIVE Concat(_)
Concat(ss) == IF Len(ss) = 0 THEN <<>> ELSE Head(ss) \o Concat(Tail(ss))

RECURSIVE tree_leaves(_)
tree_leaves(t) ==
  IF t.kind \in {"list", "dict"}
  THEN Concat([i \in 1..Len(t.kids) |-> tree_leaves(t.kids[i])])
  ELSE <<t>>

\* treedef.flatten_up_to(r): the subtrees of r at the leaf positions of the
\* treedef; r must have the treedef's containers, and may go on below its leaves
RECURSIVE flatten_up_to(_, _)
flatten_up_to(def, r) ==
  IF def.kind \in {"list", "dict"}
  THEN IF r.kind = def.kind /\ Len(r.kids) = Len(def.kids)
       THEN LET parts == [i \in 1..Len(def.kids) |->
                            flatten_up_to(def.kids[i], r.kids[i])]
            IN  IF \A i \in 1..Len(def.kids) : parts[i].ok
                THEN [ok |-> TRUE,
                      xs |-> Concat([i \in 1..Len(def.kids) |-> parts[i].xs])]
                ELSE [ok |-> FALSE, xs |-> <<>>]
       ELSE [ok |-> FALSE, xs |-> <<>>]
  ELSE [ok |-> TRUE, xs |-> <<r>>]

RECURSIVE LeavesBefore(_, _)
LeavesBefore(kids, i) ==
  IF i <= 1 THEN 0
  ELSE LeavesBefore(kids, i - 1) + Len(tree_leaves(kids[i - 1]))

RECURSIVE tree_unflatten(_, _)
tree_unflatten(def, xs) ==
  IF def.kind \in {"list", "dict"}
  THEN [def EXCEPT !.kids =
          [i \in 1..Len(def.kids) |->
             tree_unflatten(def.kids[i],
                            SubSeq(xs, LeavesBefore(def.kids, i) + 1,
                                   LeavesBefore(def.kids, i)
                                     + Len(tree_leaves(def.kids[i]))))]]
  ELSE xs[1]

----------------------------------------------------------------------------
(* The functions a caller wraps with stateless: f(updates, params) *)

RECURSIVE IncTree(_)
IncTree(u) ==
  IF u.kind \in {"list", "dict"}
  THEN [u EXCEPT !.kids = [i \in 1..Len(u.kids) |-> IncTree(u.kids[i])]]
  ELSE Leaf(u.val + 1)

RECURSIVE AddTrees(_, _)
AddTrees(u, p) ==
  IF u.kind \in {"list", "dict"}
  THEN [u EXCEPT !.kids =
          [i \in 1..Len(u.kids) |-> AddTrees(u.kids[i], p.kids[i])]]
  ELSE Leaf(u.val + p.val)

FOk(v) == [ok |-> TRUE, err |-> NoErr, val |-> v]
FFail(origin, type) ==
  [ok |-> FALSE, err |-> [origin |-> origin, type |-> type], val |-> NoValue]

\* "inc" is lambda u, p: u + 1, elementwise, whatever p is;
\* "add_params" is lambda u, p: u + p, elementwise: it reads p without a None
\* check, and fails on a p that is None or not shaped like u
FNames == {"inc", "add_params"}
F(f, u, p) ==
  IF f = "inc" THEN FOk(IncTree(u))
  ELSE IF p = NoneVal THEN FFail("f", "TypeError")
  ELSE IF tree_structure(u) = tree_structure(p) THEN FOk(AddTrees(u, p))
  ELSE FFail("f", "ValueError")

\* what jax.tree_map is given to call on the leaves: jnp.zeros_like, f itself,
\* or the closure f_ = lambda u: f(u, None)
ZerosLike == [name |-> "zeros_like", f |-> "none"]
UserF(f) == [name |-> "f", f |-> f]
UserFNone(f) == [name |-> "f_", f |-> f]

zeros_like(x) == Leaf(0)

Apply(fn, args) ==
  IF fn.name = "zeros_like" THEN FOk(zeros_like(args[1]))
  ELSE IF fn.name = "f_" THEN F(fn.f, args[1], NoneVal)
  ELSE F(fn.f, args[1], args[2])

\* the calls of fn on the first k leaves, in order, stopping at the first
\* that raises
RECURSIVE RunLeaves(_, _, _)
RunLeaves(fn, args, k) ==
  IF k = 0 THEN [ok |-> TRUE, err |-> NoErr, out |-> <<>>, calls |-> <<>>]
  ELSE LET prev == RunLeaves(fn, args, k - 1)
           r == Apply(fn, args[k])
       IN  IF ~prev.ok THEN prev
           ELSE IF r.ok
           THEN [ok |-> TRUE, err |-> NoErr, out |-> Append(prev.out, r.val),
                 calls |-> Append(prev.calls, args[k])]
           ELSE [ok |-> FALSE, err |-> r.err, out |-> prev.out,
                 calls |-> Append(prev.calls, args[k])]

\* jax.tree_map(fn, tree, *rest): every rest tree is flattened up to tree's
\* structure (a mismatch raises before fn is called), fn is called on the
\* leaves position by position, and the results are put back in tree's structure
tree_map(fn, tree, rest) ==
  LET def == tree_structure(tree)
      leaves == tree_leaves(tree)
      ups == [j \in 1..Len(rest) |-> flatten_up_to(def, rest[j])]
      args == [i \in 1..Len(leaves) |->
                 <<leaves[i]>> \o [j \in 1..Len(rest) |-> ups[j].xs[i]]]
      run == RunLeaves(fn, args, Len(leaves))
  IN  IF \E j \in 1..Len(rest) : ~ups[j].ok
      THEN [ok |-> FALSE, err |-> [origin |-> "tree_map", type |-> "ValueError"],
            val |-> NoValue, calls |-> <<>>]
      ELSE IF ~run.ok
      THEN [ok |-> FALSE, err |-> run.err, val |-> NoValue, calls |-> run.calls]
      ELSE [ok |-> TRUE, err |-> NoErr, val |-> tree_unflatten(def, run.out),
            calls |-> run.calls]

----------------------------------------------------------------------------
(* The primitive transformations *)

identity_init_fn(params) == EmptyState

\* faulty variants of identity's update: it zeroes the updates as set_to_zero
\* does; it returns no state
identity_update_fn_zeroes(updates, state, params) ==
  Return(tree_map(ZerosLike, updates, <<>>).val, state, <<>>)

identity_update_fn_drops_state(updates, state, params) ==
  Return(updates, NoState, <<>>)

identity_update_fn(updates, state, params) == Return(updates, state, <<>>)

set_to_zero_init_fn(params) == EmptyState

\* a faulty variant of set_to_zero's update: it passes the updates through
set_to_zero_update_fn_passthrough(updates, state, params) ==
  Return(updates, state, <<>>)

set_to_zero_update_fn(updates, state, params) ==
  Return(tree_map(ZerosLike, updates, <<>>).val, state, <<>>)

\* a faulty variant of stateless's init: the state keeps something of params
stateless_init_fn_keeps_params(f, on_leaves, params) ==
  OtherState(Len(tree_leaves(params)))

stateless_init_fn(f, on_leaves, params) == EmptyState

\* the (updates, params) pairs f is called with, from the argument lists the
\* tree map passed
FCalls(calls) ==
  [i \in 1..Len(calls) |->
     <<calls[i][1], IF Len(calls[i]) = 2 THEN calls[i][2] ELSE NoneVal>>]

\* faulty variants of stateless's update.
\* The test of on_leaves is inverted:
stateless_update_fn_inverted(f, on_leaves, updates, state, params) ==
  IF on_leaves
  THEN LET r == F(f, updates, params)
       IN  IF r.ok THEN Return(r.val, state, << <<updates, params>> >>)
           ELSE Raise(r.err.origin, r.err.type, << <<updates, params>> >>)
  ELSE LET m == IF params # NoneVal
                THEN tree_map(UserF(f), updates, <<params>>)
                ELSE tree_map(UserFNone(f), updates, <<>>)
       IN  IF m.ok THEN Return(m.val, state, FCalls(m.calls))
           ELSE Raise(m.err.origin, m.err.type, FCalls(m.calls))

\* in leaf mode params is not passed on to the tree map:
stateless_update_fn_drops_params(f, on_leaves, updates, state, params) ==
  IF ~on_leaves
  THEN LET r == F(f, updates, params)
       IN  IF r.ok THEN Return(r.val, state, << <<updates, params>> >>)
           ELSE Raise(r.err.origin, r.err.type, << <<updates, params>> >>)
  ELSE LET m == tree_map(UserFNone(f), updates, <<>>)
       IN  IF m.ok THEN Return(m.val, state, FCalls(m.calls))
           ELSE Raise(m.err.origin, m.err.type, FCalls(m.calls))

\* in leaf mode the results are returned as a flat list, not in the
\* structure of updates:
stateless_update_fn_flat(f, on_leaves, updates, state, params) ==
  IF ~on_leaves
  THEN LET r == F(f, updates, params)
       IN  IF r.ok THEN Return(r.val, state, << <<updates, params>> >>)
           ELSE Raise(r.err.origin, r.err.type, << <<updates, params>> >>)
  ELSE LET m == IF params # NoneVal
                THEN tree_map(UserF(f), updates, <<params>>)
                ELSE tree_map(UserFNone(f), updates, <<>>)
       IN  IF m.ok THEN Return(List(tree_leaves(m.val)), state, FCalls(m.calls))
           ELSE Raise(m.err.origin, m.err.type, FCalls(m.calls))

\* a failure of f is caught, and the updates are returned as they came:
stateless_update_fn_swallows(f, on_leaves, updates, state, params) ==
  IF ~on_leaves
  THEN LET r == F(f, updates, params)
       IN  IF r.ok THEN Return(r.val, state, << <<updates, params>> >>)
           ELSE Return(updates, state, << <<updates, params>> >>)
  ELSE LET m == IF params # NoneVal
                THEN tree_map(UserF(f), updates, <<params>>)
                ELSE tree_map(UserFNone(f), updates, <<>>)
       IN  IF m.ok THEN Return(m.val, state, FCalls(m.calls))
           ELSE IF m.err.origin = "f"
           THEN Return(updates, state, FCalls(m.calls))
           ELSE Raise(m.err.origin, m.err.type, FCalls(m.calls))

\* in whole-tree mode the structure of params is checked against that of
\* updates before f is called:
stateless_update_fn_validates(f, on_leaves, updates, state, params) ==
  IF ~on_leaves
  THEN LET r == F(f, updates, params)
       IN  IF params # NoneVal
              /\ ~flatten_up_to(tree_structure(updates), params).ok
           THEN Raise("tree_map", "ValueError", <<>>)
           ELSE IF r.ok THEN Return(r.val, state, << <<updates, params>> >>)
           ELSE Raise(r.err.origin, r.err.type, << <<updates, params>> >>)
  ELSE LET m == IF params # NoneVal
                THEN tree_map(UserF(f), updates, <<params>>)
                ELSE tree_map(UserFNone(f), updates, <<>>)
       IN  IF m.ok THEN Return(m.val, state, FCalls(m.calls))
           ELSE Raise(m.err.origin, m.err.type, FCalls(m.calls))

stateless_update_fn(f, on_leaves, updates, state, params) ==
  IF ~on_leaves
  THEN LET r == F(f, updates, params)
       IN  IF r.ok THEN Return(r.val, state, << <<updates, params>> >>)
           ELSE Raise(r.err.origin, r.err.type, << <<updates, params>> >>)
  ELSE LET m == IF params # NoneVal
                THEN tree_map(UserF(f), updates, <<params>>)
                ELSE tree_map(UserFNone(f), updates, <<>>)
       IN  IF m.ok THEN Return(m.val, state, FCalls(m.calls))
           ELSE Raise(m.err.origin, m.err.type, FCalls(m.calls))

\* GradientTransformation(init, update) of the transformation t
init(t, params) ==
  IF t.kind = "identity" THEN identity_init_fn(params)
  ELSE IF t.kind = "set_to_zero" THEN set_to_zero_init_fn(params)
  ELSE stateless_init_fn(t.f, t.on_leaves, params)

\* a faulty variant of update: the transformation remembers that it has been
\* called, and from then on zeroes the updates
update_remembers_calls(t, updates, state, params) ==
  IF memo.set THEN set_to_zero_update_fn(updates, state, params)
  ELSE IF t.kind = "identity" THEN identity_update_fn(updates, state, params)
  ELSE IF t.kind = "set_to_zero"
  THEN set_to_zero_update_fn(updates, state, params)
  ELSE stateless_update_fn(t.f, t.on_leaves, updates, state, params)

update(t, updates, state, params) ==
  IF t.kind = "identity" THEN identity_update_fn(updates, state, params)
  ELSE IF t.kind = "set_to_zero"
  THEN set_to_zero_update_fn(updates, state, params)
  ELSE stateless_update_fn(t.f, t.on_leaves, updates, state, params)

----------------------------------------------------------------------------
(* The caller's inputs *)

\* the shapes of the trees the caller passes: a bare leaf, [], [x], [x, y],
\* [x, y, z], {a: x, b: y} and {a: x, b: [y, z]}
Shapes ==
  {Leaf(0), List(<<>>), List(<<Leaf(0)>>), List(<<Leaf(0), Leaf(0)>>),
   List(<<Leaf(0), Leaf(0), Leaf(0)>>), Dict(<<Leaf(0), Leaf(0)>>),
   Dict(<<Leaf(0), List(<<Leaf(0), Leaf(0)>>)>>)}
HistShapes == {Leaf(0), List(<<Leaf(0), Leaf(0)>>)}

\* the trees of a shape with leaf values 1..n
TreesOf(shape, n) ==
  {tree_unflatten(shape, [i \in 1..Len(tree_leaves(shape)) |-> Leaf(s[i])]) :
     s \in [1..Len(tree_leaves(shape)) -> 1..n]}
TreesOver(shapes, n) == UNION {TreesOf(sh, n) : sh \in shapes}

Trees == TreesOver(Shapes, MaxLeaf)
Params == {NoneVal} \cup TreesOver(Shapes, MaxParamLeaf)
HistTrees == TreesOver(HistShapes, MaxHistLeaf)
HistParams == {NoneVal} \cup HistTrees
States == {EmptyState, OtherState(0)}

Txs ==
  {[kind |-> "identity", f |-> "none", on_leaves |-> FALSE],
   [kind |-> "set_to_zero", f |-> "none", on_leaves |-> FALSE]}
  \cup {[kind |-> "stateless", f |-> f, on_leaves |-> b] :
          f \in FNames, b \in BOOLEAN}

----------------------------------------------------------------------------
(* The caller *)

NoCall ==
  [op |-> "none", updates |-> NoValue, state |-> NoState, params |-> NoValue,
   threaded |-> FALSE]
NoMemo == [set |-> FALSE, call |-> NoCall, ret |-> NoRet]

\* under the history specification the caller may keep its first calls for
\* comparison with later ones
Remember(c, r, hist) ==
  IF hist /\ ~memo.set
  THEN memo' \in {memo, [set |-> TRUE, call |-> c, ret |-> r]}
  ELSE UNCHANGED memo

Init ==
  /\ tx \in Txs
  /\ pc = "idle"
  /\ call = NoCall
  /\ ret = NoRet
  /\ opt_state = NoState
  /\ memo = NoMemo

\* opt_state = tx.init(params)
CallInit(P, hist) ==
  /\ pc = "idle"
  /\ \E p \in P :
       LET c == [op |-> "init", updates |-> NoValue, state |-> NoState,
                 params |-> p, threaded |-> TRUE]
           r == Return(NoValue, init(tx, p), <<>>)
       IN  /\ call' = c
           /\ ret' = r
           /\ Remember(c, r, hist)
  /\ pc' = "returned"
  /\ UNCHANGED <<tx, opt_state>>

\* updates, opt_state = tx.update(updates, opt_state, params)
CallUpdate(U, P, hist) ==
  /\ pc = "idle"
  /\ opt_state # NoState
  /\ \E u \in U, p \in P :
       LET c == [op |-> "update", updates |-> u, state |-> opt_state,
                 params |-> p, threaded |-> TRUE]
           r == update(tx, u, opt_state, p)
       IN  /\ call' = c
           /\ ret' = r
           /\ Remember(c, r, hist)
  /\ pc' = "returned"
  /\ UNCHANGED <<tx, opt_state>>

\* tx.update(updates, state, params) with a state of the caller's choosing,
\* whose result the caller does not thread
CallUpdateWith(U, S, P, hist) ==
  /\ pc = "idle"
  /\ \E u \in U, s \in S, p \in P :
       LET c == [op |-> "update", updates |-> u, state |-> s,
                 params |-> p, threaded |-> FALSE]
           r == update(tx, u, s, p)
       IN  /\ call' = c
           /\ ret' = r
           /\ Remember(c, r, hist)
  /\ pc' = "returned"
  /\ UNCHANGED <<tx, opt_state>>

\* the caller takes the outcome: a threaded call that returned replaces the
\* caller's state, a call that raised leaves the caller with what it had
ReturnToCaller ==
  /\ pc = "returned"
  /\ pc' = "idle"
  /\ call' = NoCall
  /\ ret' = NoRet
  /\ opt_state' = IF call.threaded /\ ret.status = "ok"
                  THEN ret.new_state ELSE opt_state
  /\ UNCHANGED <<tx, memo>>

Next ==
  \/ CallInit(Params, FALSE)
  \/ CallUpdate(Trees, Params, FALSE)
  \/ CallUpdateWith(Trees, States, Params, FALSE)
  \/ ReturnToCaller

Spec == Init /\ [][Next]_vars

NextHist ==
  \/ CallInit(HistParams, TRUE)
  \/ CallUpdate(HistTrees, HistParams, TRUE)
  \/ CallUpdateWith(HistTrees, States, HistParams, TRUE)
  \/ ReturnToCaller

SpecHist == Init /\ [][NextHist]_vars

----------------------------------------------------------------------------
(* What the properties are stated with *)

IsNode(t) == t.kind \in {"list", "dict"}

RECURSIVE SameStructure(_, _)
SameStructure(a, b) ==
  /\ a.kind = b.kind
  /\ IsNode(a) =>
       /\ Len(a.kids) = Len(b.kids)
       /\ \A i \in 1..Len(a.kids) : SameStructure(a.kids[i], b.kids[i])

\* a has b's containers down to a's leaves, below which b may go on
RECURSIVE IsPrefix(_, _)
IsPrefix(a, b) ==
  \/ a.kind = "leaf"
  \/ /\ IsNode(a)
     /\ a.kind = b.kind
     /\ Len(a.kids) = Len(b.kids)
     /\ \A i \in 1..Len(a.kids) : IsPrefix(a.kids[i], b.kids[i])

\* the positions of the leaves of t, each the path of child indices to it
RECURSIVE LeafPaths(_)
LeafPaths(t) ==
  IF IsNode(t)
  THEN UNION {{<<i>> \o q : q \in LeafPaths(t.kids[i])} : i \in 1..Len(t.kids)}
  ELSE {<<>>}

RECURSIVE At(_, _)
At(t, path) == IF path = <<>> THEN t ELSE At(t.kids[Head(path)], Tail(path))

Args(c) ==
  [op |-> c.op, updates |-> c.updates, state |-> c.state, params |-> c.params]

Updated == pc = "returned" /\ call.op = "update"
Inited == pc = "returned" /\ call.op = "init"

----------------------------------------------------------------------------
(* Properties *)

\* C1: identity().update(updates, state, params) returns exactly
\* (updates, state), for every updates, state and params (None included).
C1_IdentityLaw ==
  (Updated /\ tx.kind = "identity") =>
    /\ ret.status = "ok"
    /\ ret.new_updates = call.updates
    /\ ret.new_state = call.state

C1_Witness ==
  /\ Updated /\ tx.kind = "identity"
  /\ call.updates = Dict(<<Leaf(1), List(<<Leaf(2), Leaf(3)>>)>>)
  /\ call.state = OtherState(0)
  /\ call.params = List(<<Leaf(2)>>)
  /\ ret.new_updates = call.updates

\* C2: set_to_zero().update(updates, state, params) returns a tree of
\* updates' structure whose every leaf is zero, and the state it was given,
\* whatever the values of updates and whatever params is.
C2_ZeroLaw ==
  (Updated /\ tx.kind = "set_to_zero") =>
    /\ ret.status = "ok"
    /\ SameStructure(ret.new_updates, call.updates)
    /\ \A q \in LeafPaths(ret.new_updates) : At(ret.new_updates, q) = Leaf(0)
    /\ ret.new_state = call.state

C2_Witness ==
  /\ Updated /\ tx.kind = "set_to_zero"
  /\ call.updates = Dict(<<Leaf(1), List(<<Leaf(2), Leaf(3)>>)>>)
  /\ call.state = OtherState(0)
  /\ call.params = List(<<Leaf(2)>>)
  /\ ret.new_updates = Dict(<<Leaf(0), List(<<Leaf(0), Leaf(0)>>)>>)

\* C3: with on_leaves false, stateless(f).update calls f exactly once, with
\* the whole updates tree and the whole params value (None when there is
\* none), and when f returns, returns (f(updates, params), state).
C3_WholeTree ==
  (Updated /\ tx.kind = "stateless" /\ ~tx.on_leaves) =>
    /\ ret.fcalls = << <<call.updates, call.params>> >>
    /\ F(tx.f, call.updates, call.params).ok =>
         /\ ret.status = "ok"
         /\ ret.new_updates = F(tx.f, call.updates, call.params).val
         /\ ret.new_state = call.state

\* incrementing [1, 2, 3] with state EmptyState and params None gives
\* ([2, 3, 4], EmptyState)
C3_Witness ==
  /\ Updated /\ tx.kind = "stateless" /\ ~tx.on_leaves /\ tx.f = "inc"
  /\ call.updates = List(<<Leaf(1), Leaf(2), Leaf(3)>>)
  /\ call.state = EmptyState
  /\ call.params = NoneVal
  /\ ret.status = "ok"
  /\ ret.new_updates = List(<<Leaf(2), Leaf(3), Leaf(4)>>)
  /\ ret.new_state = EmptyState

\* the params leaf that goes with the updates leaf at q
ParamsLeaf(q) == IF call.params = NoneVal THEN NoneVal ELSE At(call.params, q)

\* C4: with on_leaves true, and params None or a tree of updates' structure,
\* stateless(f).update applies f once to each leaf of updates, with the
\* params leaf of the same position (None when params is None); when f
\* returns at every leaf the result has f's value at every position and the
\* state is the one passed in.
C4_OnLeaves ==
  (/\ Updated /\ tx.kind = "stateless" /\ tx.on_leaves
   /\ (call.params = NoneVal \/ SameStructure(call.updates, call.params))) =>
    LET paths == LeafPaths(call.updates)
        fr(q) == F(tx.f, At(call.updates, q), ParamsLeaf(q))
    IN  IF \A q \in paths : fr(q).ok
        THEN /\ ret.status = "ok"
             /\ SameStructure(ret.new_updates, call.updates)
             /\ \A q \in paths : At(ret.new_updates, q) = fr(q).val
             /\ Len(ret.fcalls) = Cardinality(paths)
             /\ \A q \in paths : \E i \in 1..Len(ret.fcalls) :
                  ret.fcalls[i] = <<At(call.updates, q), ParamsLeaf(q)>>
             /\ ret.new_state = call.state
        ELSE ret.status = "raise"

\* incrementing {a: 1, b: [2, 3]} leaf by leaf with params None gives
\* {a: 2, b: [3, 4]}
C4_Witness ==
  /\ Updated /\ tx.kind = "stateless" /\ tx.on_leaves /\ tx.f = "inc"
  /\ call.updates = Dict(<<Leaf(1), List(<<Leaf(2), Leaf(3)>>)>>)
  /\ call.params = NoneVal
  /\ ret.status = "ok"
  /\ ret.new_updates = Dict(<<Leaf(2), List(<<Leaf(3), Leaf(4)>>)>>)
  /\ Len(ret.fcalls) = 3

C7_InitEmptyState ==
  Inited =>
    /\ ret.status = "ok"
    /\ ret.new_state = EmptyState
    /\ ret.new_state.fields = <<>>
    /\ (memo.set /\ memo.call.op = "init") => ret.new_state = memo.ret.new_state

C7_Witness ==
  /\ Inited /\ memo.set /\ memo.call.op = "init"
  /\ memo.call.params = List(<<Leaf(1), Leaf(2)>>)
  /\ call.params = List(<<Leaf(2), Leaf(1)>>)
  /\ ret.new_state = memo.ret.new_state

\* the last call of f that the update made raised
FFailed ==
  /\ Len(ret.fcalls) > 0
  /\ ~F(tx.f, ret.fcalls[Len(ret.fcalls)][1], ret.fcalls[Len(ret.fcalls)][2]).ok

C8_Inv ==
  (Updated /\ tx.kind = "stateless" /\ FFailed) =>
    LET last == ret.fcalls[Len(ret.fcalls)]
    IN  /\ ret.status = "raise"
        /\ ret.err = F(tx.f, last[1], last[2]).err
        /\ ret.new_updates = NoValue
        /\ ret.new_state = NoState
        /\ \A i \in 1..(Len(ret.fcalls) - 1) :
             F(tx.f, ret.fcalls[i][1], ret.fcalls[i][2]).ok
        /\ call.threaded => opt_state = call.state

C8_Step == (pc = "returned" /\ ret.status = "raise") => opt_state' = opt_state

\* C8: when f fails during stateless(f).update, in either mode, the call
\* ends with f's own failure (not caught, renamed or retried), returns no
\* pair, and leaves the caller with the state it had, which a later call
\* can use.
C8_FailurePropagates == [](C8_Inv) /\ [][C8_Step]_vars

\* a call that failed for want of params is kept, and a later call with the
\* same threaded state has returned
C8_Witness ==
  /\ Updated /\ tx.kind = "stateless" /\ tx.f = "add_params"
  /\ memo.set /\ memo.call.op = "update" /\ memo.call.threaded
  /\ memo.call.params = NoneVal
  /\ memo.ret.status = "raise"
  /\ memo.ret.err = [origin |-> "f", type |-> "TypeError"]
  /\ call.threaded /\ call.state = memo.call.state
  /\ ret.status = "ok"

\* C9: the state created by init and threaded through successful update calls
\* is returned by every call as it was passed, so it is Empty State at every
\* step.
C9_ThreadedStateEmpty ==
  /\ opt_state \in {NoState, EmptyState}
  /\ (Updated /\ call.threaded /\ ret.status = "ok") =>
       /\ ret.new_state = call.state
       /\ ret.new_state = EmptyState

C9_Witness ==
  /\ Updated /\ call.threaded /\ ret.status = "ok"
  /\ tx.kind = "stateless" /\ tx.on_leaves
  /\ call.params # NoneVal
  /\ opt_state = EmptyState
  /\ ret.new_state = EmptyState

TreeMapError == [origin |-> "tree_map", type |-> "ValueError"]

\* C10 as claimed: in leaf mode every params tree whose structure differs
\* from that of updates makes the tree map raise its structural-mismatch
\* error, and the other primitives never raise one.
C10_Claimed ==
  Updated =>
    /\ (/\ tx.kind = "stateless" /\ tx.on_leaves /\ call.params # NoneVal
        /\ ~SameStructure(call.updates, call.params)) =>
         (ret.status = "raise" /\ ret.err = TreeMapError)
    /\ ~(tx.kind = "stateless" /\ tx.on_leaves) => ret.err # TreeMapError

\* C10, amended: in leaf mode a params tree that lacks one of the containers
\* of updates makes the tree map raise its structural-mismatch error before f
\* is called; a params tree that has them all but goes on below a leaf of
\* updates raises no such error, and f is called with that subtree; the other
\* primitives never raise a structural-mismatch error.
C10_MismatchFromTreeMap ==
  Updated =>
    /\ (/\ tx.kind = "stateless" /\ tx.on_leaves /\ call.params # NoneVal
        /\ ~IsPrefix(call.updates, call.params)) =>
         /\ ret.status = "raise" /\ ret.err = TreeMapError
         /\ ret.new_updates = NoValue /\ ret.new_state = NoState
         /\ ret.fcalls = <<>>
    /\ (/\ tx.kind = "stateless" /\ tx.on_leaves /\ call.params # NoneVal
        /\ IsPrefix(call.updates, call.params)) =>
         /\ ret.err # TreeMapError
         /\ \A q \in LeafPaths(call.updates) :
              (\A i \in 1..Len(ret.fcalls) :
                 F(tx.f, ret.fcalls[i][1], ret.fcalls[i][2]).ok)
                => \E i \in 1..Len(ret.fcalls) :
                     ret.fcalls[i] = <<At(call.updates, q), At(call.params, q)>>
    /\ ~(tx.kind = "stateless" /\ tx.on_leaves) => ret.err # TreeMapError

C10_Witness ==
  /\ Updated /\ tx.kind = "stateless" /\ tx.on_leaves
  /\ call.updates = List(<<Leaf(1), Leaf(2)>>)
  /\ call.params = Dict(<<Leaf(1), Leaf(2)>>)
  /\ ret.status = "raise" /\ ret.err = TreeMapError

====
